---- MODULE Spec2Model ----
(***************************************************************************)
(* DatasetMemoryCalculator (src/memory_calculator.py): the schema list,    *)
(* add_column, calculate_column_size, calculate_total_memory and           *)
(* parse_create_table_sql, and the CREATE TABLE test of                    *)
(* parse_create_table_ddl (src/app.py).                                    *)
(*                                                                         *)
(* Text is a sequence of one-character strings, so that lower(), strip(),  *)
(* startswith() and the regular expressions act on characters as they do   *)
(* in Python.  None is the empty sequence and a present value v is <<v>>.  *)
(***************************************************************************)
EXTENDS Integers, Sequences, FiniteSets, TLC

VARIABLES columns, op, arg, result, warnings, n_before

vars == <<columns, op, arg, result, warnings, n_before>>

\* ------------------------------------------------------------------ bounds

\* Columns a schema may hold before add_column is no longer offered.
MaxCols == 2

\* Largest row count offered to the calculations (the smallest is -1).
MaxRows == 2

\* Column definitions in a generated CREATE TABLE statement.
MaxDefs == 2

\* ------------------------------------------------------------- characters

LowerLetters == <<"a","b","c","d","e","f","g","h","i","j","k","l","m",
                  "n","o","p","q","r","s","t","u","v","w","x","y","z">>

UpperLetters == <<"A","B","C","D","E","F","G","H","I","J","K","L","M",
                  "N","O","P","Q","R","S","T","U","V","W","X","Y","Z">>

DigitChars == <<"0","1","2","3","4","5","6","7","8","9">>

IndexOf(alphabet, c) ==
    IF \E i \in DOMAIN alphabet : alphabet[i] = c
    THEN CHOOSE i \in DOMAIN alphabet : alphabet[i] = c
    ELSE 0

\* The lower-case letter of each upper-case letter, and the reverse.
ToLower == [c \in {UpperLetters[i] : i \in DOMAIN UpperLetters} |->
               LowerLetters[IndexOf(UpperLetters, c)]]

ToUpper == [c \in {LowerLetters[i] : i \in DOMAIN LowerLetters} |->
               UpperLetters[IndexOf(LowerLetters, c)]]

LowerChar(c) == IF c \in DOMAIN ToLower THEN ToLower[c] ELSE c

UpperChar(c) == IF c \in DOMAIN ToUpper THEN ToUpper[c] ELSE c

\* str.lower()
Lower(s) == [i \in DOMAIN s |-> LowerChar(s[i])]

\* str.upper()
Upper(s) == [i \in DOMAIN s |-> UpperChar(s[i])]

\* \s
SpaceClass == {" ", "\n", "\t"}

IsSpace(c) == c \in SpaceClass

\* \d
DigitClass == {DigitChars[i] : i \in DOMAIN DigitChars}

IsDigit(c) == c \in DigitClass

\* \w
WordClass == DOMAIN ToUpper \cup DOMAIN ToLower \cup DigitClass \cup {"_"}

IsWord(c) == c \in WordClass

\* str.strip()
Strip(s) ==
    IF \A i \in DOMAIN s : IsSpace(s[i]) THEN <<>>
    ELSE SubSeq(s,
                CHOOSE i \in DOMAIN s :
                    ~IsSpace(s[i]) /\ \A j \in 1..(i - 1) : IsSpace(s[j]),
                CHOOSE i \in DOMAIN s :
                    ~IsSpace(s[i]) /\ \A j \in (i + 1)..Len(s) : IsSpace(s[j]))

\* str.startswith(prefix)
StartsWith(s, prefix) ==
    /\ Len(s) >= Len(prefix)
    /\ SubSeq(s, 1, Len(prefix)) = prefix

\* Python's None, and a value that is present.
None == <<>>

Some(v) == <<v>>

\* dict.get(key, default)
Get(d, key, default) == IF key \in DOMAIN d THEN d[key] ELSE default

\* F applied to the value of v: LET x == v IN F(x), with v evaluated once
\* however often F uses it.
Bind(v, F(_)) == CHOOSE r \in {F(x) : x \in {v}} : TRUE

\* ------------------------------------------------------------- type names

ty_int8 == <<"i","n","t","8">>
ty_int16 == <<"i","n","t","1","6">>
ty_int32 == <<"i","n","t","3","2">>
ty_int64 == <<"i","n","t","6","4">>
ty_bigint == <<"b","i","g","i","n","t">>
ty_smallint == <<"s","m","a","l","l","i","n","t">>
ty_float == <<"f","l","o","a","t">>
ty_float32 == <<"f","l","o","a","t","3","2">>
ty_float64 == <<"f","l","o","a","t","6","4">>
ty_decimal == <<"d","e","c","i","m","a","l">>
ty_bool == <<"b","o","o","l">>
ty_boolean == <<"b","o","o","l","e","a","n">>
ty_datetime == <<"d","a","t","e","t","i","m","e">>
ty_string == <<"s","t","r","i","n","g">>
ty_varchar == <<"v","a","r","c","h","a","r">>
ty_char == <<"c","h","a","r">>

\* A fixed size in bytes, or the callable entry of 'string'.
Fixed(n) == [callable |-> FALSE, size |-> n]

LengthFunc == [callable |-> TRUE, size |-> 0]

DATA_TYPE_SIZES ==
    (ty_int8 :> Fixed(1)) @@ (ty_int16 :> Fixed(2)) @@ (ty_int32 :> Fixed(4)) @@
    (ty_int64 :> Fixed(8)) @@ (ty_bigint :> Fixed(8)) @@ (ty_smallint :> Fixed(2)) @@
    (ty_float :> Fixed(4)) @@ (ty_float32 :> Fixed(4)) @@ (ty_float64 :> Fixed(8)) @@
    (ty_decimal :> Fixed(8)) @@ (ty_bool :> Fixed(1)) @@ (ty_boolean :> Fixed(1)) @@
    (ty_datetime :> Fixed(8)) @@ (ty_string :> LengthFunc)

\* ------------------------------------------------------------- add_column

\* The length add_column gives a varchar or string column that has none.
DefaultLength == 50

\* The types whose missing length add_column replaces by the default.
DefaultedTypes == {ty_varchar, ty_string}

\* data_type.lower().strip(), and 'decimal...' collapsed to 'decimal'.
NormalizeType(data_type) ==
    Bind(Strip(Lower(data_type)), LAMBDA t :
        IF StartsWith(t, ty_decimal) THEN ty_decimal ELSE t)

\* The descriptor add_column stores.
Descriptor(name, data_type, length) ==
    Bind(NormalizeType(data_type), LAMBDA t :
        [name |-> name,
         type |-> t,
         length |-> IF t \in DefaultedTypes /\ length = None
                    THEN Some(DefaultLength)
                    ELSE length])

\* A mutation of AppendColumn: a column of the same name is replaced.
AppendColumnReplacingName(cols, d) ==
    IF \E i \in DOMAIN cols : cols[i].name = d.name
    THEN [i \in DOMAIN cols |-> IF cols[i].name = d.name THEN d ELSE cols[i]]
    ELSE Append(cols, d)

\* self.columns.append({...})
AppendColumn(cols, d) == Append(cols, d)

\* add_column as a function of the list it appends to.
add_column(cols, name, data_type, length) ==
    AppendColumn(cols, Descriptor(name, data_type, length))

\* -------------------------------------------------- calculate_column_size

\* The length calculate_column_size reads when the key 'length' is absent.
AbsentLength == 50

\* A mutation of UnknownTypeSize: the fallback of estimate_column_size.
UnknownTypeSizeOfApp == 4

\* The size taken for a type DATA_TYPE_SIZES does not list.
UnknownTypeSize == 1

\* The string-like types, whose size is the stored length.
StringLikeTypes == {ty_varchar, ty_string, ty_char}

\* value * row_count, a TypeError when value is None.
Times(value, row_count, warned) ==
    IF value = None
    THEN [exc |-> "TypeError", size |-> 0, warned |-> warned]
    ELSE [exc |-> "", size |-> value[1] * row_count, warned |-> warned]

\* calculate_column_size: the size, the exception raised instead, and the
\* number of warnings printed.
calculate_column_size(column, row_count) ==
    LET col_type == Lower(column.type)
        known == col_type \in DOMAIN DATA_TYPE_SIZES
        size_func == DATA_TYPE_SIZES[col_type]
    IN  IF col_type \in StringLikeTypes
        THEN Times(Get(column, "length", Some(AbsentLength)), row_count, 0)
        ELSE IF known /\ size_func.callable
        THEN Times(Get(column, "length", Some(0)), row_count, 0)
        ELSE IF ~known
        THEN Times(Some(UnknownTypeSize), row_count, 1)
        ELSE Times(Some(size_func.size), row_count, 0)

\* ------------------------------------------------- calculate_total_memory

\* sum(calculate_column_size(col, row_count) for col in columns), left to
\* right: the first exception ends it, after the warnings printed so far.
RECURSIVE SumSizes(_, _, _, _, _)
SumSizes(cols, row_count, i, total, warned) ==
    IF i > Len(cols)
    THEN [exc |-> "", size |-> total, warned |-> warned]
    ELSE LET r == calculate_column_size(cols[i], row_count)
         IN  IF r.exc # ""
             THEN [exc |-> r.exc, size |-> 0, warned |-> warned + r.warned]
             ELSE SumSizes(cols, row_count, i + 1, total + r.size,
                           warned + r.warned)

\* total_bytes / den, kept exact as numerator and denominator.
Quotient(num, den) == [num |-> num, den |-> den]

Estimate(total_bytes) ==
    [kind |-> "estimate",
     total_bytes |-> total_bytes,
     total_kb |-> Quotient(total_bytes, 1024),
     total_mb |-> Quotient(total_bytes, 1024 * 1024),
     total_gb |-> Quotient(total_bytes, 1024 * 1024 * 1024)]

\* The record returned for a calculator without columns: four integers 0.
EmptyEstimate ==
    [kind |-> "estimate",
     total_bytes |-> 0,
     total_kb |-> Quotient(0, 1),
     total_mb |-> Quotient(0, 1),
     total_gb |-> Quotient(0, 1)]

Raised(exc) == [kind |-> exc]

ReturnedNone == [kind |-> "none"]

\* calculate_total_memory: the returned record or the exception, and the
\* number of warnings printed.
calculate_total_memory(cols, row_count) ==
    IF cols = <<>>
    THEN [result |-> EmptyEstimate, warned |-> 0]
    ELSE LET s == SumSizes(cols, row_count, 1, 0, 0)
         IN  [result |-> IF s.exc # "" THEN Raised(s.exc) ELSE Estimate(s.size),
              warned |-> s.warned]

\* ------------------------------------------------- parse_create_table_sql

kw_BIGINT == <<"B","I","G","I","N","T">>
kw_SMALLINT == <<"S","M","A","L","L","I","N","T">>
kw_INT == <<"I","N","T">>
kw_DECIMAL == <<"D","E","C","I","M","A","L">>
kw_FLOAT == <<"F","L","O","A","T">>
kw_DOUBLE == <<"D","O","U","B","L","E">>
kw_VARCHAR == <<"V","A","R","C","H","A","R">>
kw_CHAR == <<"C","H","A","R">>
kw_DATETIME == <<"D","A","T","E","T","I","M","E">>
kw_BOOLEAN == <<"B","O","O","L","E","A","N">>
kw_BOOL == <<"B","O","O","L">>
kw_NOT == <<"N","O","T">>
kw_NULL == <<"N","U","L","L">>
kw_PRIMARY == <<"P","R","I","M","A","R","Y">>
kw_KEY == <<"K","E","Y">>
kw_CREATE_TABLE == <<"C","R","E","A","T","E"," ","T","A","B","L","E">>

\* re.sub(r'\s+', ' ', sql.strip()): every run of whitespace becomes one
\* space (the first character of the run becomes the space, the others go).
NormalizeSql(sql) ==
    Bind(Strip(sql), LAMBDA t :
        SelectSeq([i \in DOMAIN t |->
                     IF ~IsSpace(t[i]) THEN t[i]
                     ELSE IF i > 1 /\ IsSpace(t[i - 1]) THEN "" ELSE " "],
                  LAMBDA c : c # ""))

\* The position after the longest run of characters of a class that starts
\* at i (i itself when there is none): \s*, \d+ and \w+ are greedy, and what
\* follows each in the patterns below never starts with a character of the
\* class, so no shorter run can match.
RunEnd(s, i, class) ==
    CHOOSE j \in i..(Len(s) + 1) :
        /\ j > Len(s) \/ s[j] \notin class
        /\ \A k \in i..(j - 1) : s[k] \in class

SpacesEnd(s, i) == RunEnd(s, i, SpaceClass)

DigitsEnd(s, i) == RunEnd(s, i, DigitClass)

WordEnd(s, i) == RunEnd(s, i, WordClass)

\* A literal matched at i under re.IGNORECASE: the position after it, 0 when
\* it does not match.
MatchLiteral(s, i, lit) ==
    IF /\ i >= 1
       /\ i + Len(lit) - 1 <= Len(s)
       /\ \A k \in 1..Len(lit) : UpperChar(s[i + k - 1]) = UpperChar(lit[k])
    THEN i + Len(lit)
    ELSE 0

CharAt(s, i) == IF i >= 1 /\ i <= Len(s) THEN s[i] ELSE ""

\* The alternatives of the type group, in the order of the pattern; args is
\* the number of \d+ arguments in the parentheses that must follow.
TypeAlternatives ==
    << [kw |-> kw_BIGINT, args |-> 0], [kw |-> kw_SMALLINT, args |-> 0],
       [kw |-> kw_INT, args |-> 0], [kw |-> kw_DECIMAL, args |-> 2],
       [kw |-> kw_FLOAT, args |-> 0], [kw |-> kw_DOUBLE, args |-> 0],
       [kw |-> kw_VARCHAR, args |-> 1], [kw |-> kw_CHAR, args |-> 1],
       [kw |-> kw_DATETIME, args |-> 0], [kw |-> kw_BOOLEAN, args |-> 0],
       [kw |-> kw_BOOL, args |-> 0] >>

\* \(\d+\) at i: the position after it, 0 when it does not match.
MatchOneArg(s, i) ==
    IF CharAt(s, i) # "(" THEN 0
    ELSE Bind(DigitsEnd(s, i + 1), LAMBDA d :
             IF d > i + 1 /\ CharAt(s, d) = ")" THEN d + 1 ELSE 0)

\* \(\d+,\d+\) at i.
MatchTwoArgs(s, i) ==
    IF CharAt(s, i) # "(" THEN 0
    ELSE Bind(DigitsEnd(s, i + 1), LAMBDA d :
             IF d = i + 1 \/ CharAt(s, d) # "," THEN 0
             ELSE Bind(DigitsEnd(s, d + 1), LAMBDA e :
                      IF e > d + 1 /\ CharAt(s, e) = ")" THEN e + 1 ELSE 0))

MatchAlternative(s, i, alt) ==
    Bind(MatchLiteral(s, i, alt.kw), LAMBDA j :
        IF j = 0 THEN 0
        ELSE IF alt.args = 0 THEN j
        ELSE IF alt.args = 1 THEN MatchOneArg(s, j)
        ELSE MatchTwoArgs(s, j))

\* The type group at i: the first alternative that matches decides.
MatchType(s, i) ==
    Bind(TypeAlternatives, LAMBDA alts :
    Bind({k \in DOMAIN alts : MatchAlternative(s, i, alts[k]) # 0}, LAMBDA hits :
        IF hits = {} THEN 0
        ELSE MatchAlternative(s, i,
                 alts[CHOOSE k \in hits : \A m \in hits : k <= m])))

\* (?:\s*W1\s+W2)? at i: the position after it, i when the group is skipped.
OptionalPair(s, i, w1, w2) ==
    Bind(MatchLiteral(s, SpacesEnd(s, i), w1), LAMBDA a :
        IF a = 0 THEN i
        ELSE Bind(SpacesEnd(s, a), LAMBDA b :
                 IF b = a THEN i
                 ELSE Bind(MatchLiteral(s, b, w2), LAMBDA c :
                          IF c = 0 THEN i ELSE c)))

\* (?:\s*NOT\s+NULL)?(?:\s*PRIMARY\s+KEY)?
SkipConstraints(s, i) ==
    Bind(OptionalPair(s, i, kw_NOT, kw_NULL), LAMBDA j :
        OptionalPair(s, j, kw_PRIMARY, kw_KEY))

NoMatch == [ok |-> FALSE, column_name |-> <<>>, data_type |-> <<>>, end |-> 0]

\* column_pattern tried at position i: "?(\w+)"?\s+(type) and the optional
\* constraints.
MatchColumnAt(s, i) ==
    Bind(IF CharAt(s, i) = "\"" THEN i + 1 ELSE i, LAMBDA q :
    Bind(WordEnd(s, q), LAMBDA w :
        IF w = q THEN NoMatch
        ELSE Bind(SpacesEnd(s, IF CharAt(s, w) = "\"" THEN w + 1 ELSE w), LAMBDA y :
            IF CharAt(s, y - 1) = "\"" \/ y = w THEN NoMatch
            ELSE Bind(MatchType(s, y), LAMBDA t :
                IF t = 0 THEN NoMatch
                ELSE [ok |-> TRUE,
                      column_name |-> SubSeq(s, q, w - 1),
                      data_type |-> SubSeq(s, y, t - 1),
                      end |-> SkipConstraints(s, t)]))))

\* re.findall(column_pattern, sql, re.IGNORECASE): the leftmost match at or
\* after pos, then the search goes on where that match ended.  hits are the
\* positions at which the pattern matches.
RECURSIVE NextMatches(_, _, _, _)
NextMatches(s, hits, pos, acc) ==
    Bind({p \in hits : p >= pos}, LAMBDA later :
        IF later = {} THEN acc
        ELSE Bind(MatchColumnAt(s, CHOOSE p \in later : \A r \in later : p <= r),
                  LAMBDA m :
                 NextMatches(s, hits, m.end,
                             Append(acc, [column_name |-> m.column_name,
                                          data_type |-> m.data_type]))))

FindAll(s) ==
    Bind({p \in DOMAIN s : MatchColumnAt(s, p).ok}, LAMBDA hits :
        NextMatches(s, hits, 1, <<>>))

\* str.split(sep)[0]
BeforeFirst(s, sep) ==
    IF \A i \in DOMAIN s : s[i] # sep THEN s
    ELSE SubSeq(s, 1, (CHOOSE i \in DOMAIN s :
                          s[i] = sep /\ \A j \in 1..(i - 1) : s[j] # sep) - 1)

\* data_type read as a regular expression: its parentheses open and close a
\* group, every other character is a literal.
TypeAsLiteral(data_type) == SelectSeq(data_type, LAMBDA c : c \notin {"(", ")"})

\* The text of the first group of data_type read as a regular expression.
TypeGroup(data_type) ==
    LET o == CHOOSE i \in DOMAIN data_type :
                 data_type[i] = "(" /\ \A j \in 1..(i - 1) : data_type[j] # "("
        c == CHOOSE i \in DOMAIN data_type :
                 data_type[i] = ")" /\ \A j \in 1..(i - 1) : data_type[j] # ")"
    IN  SubSeq(data_type, o + 1, c - 1)

\* The length pattern {column_name}\s+{data_type}\((\d+)\) tried at i: the
\* text of group 1, which is data_type's own group when it has one.  The
\* pattern holds no space for .replace(' ', r'\s*') to replace.
LengthMatchAt(s, i, column_name, data_type) ==
    Bind(MatchLiteral(s, i, column_name), LAMBDA a :
        IF a = 0 THEN [ok |-> FALSE, group1 |-> <<>>]
        ELSE Bind(SpacesEnd(s, a), LAMBDA b :
        Bind(IF b = a THEN 0 ELSE MatchLiteral(s, b, TypeAsLiteral(data_type)),
             LAMBDA c :
            IF c = 0 \/ CharAt(s, c) # "(" THEN [ok |-> FALSE, group1 |-> <<>>]
            ELSE Bind(DigitsEnd(s, c + 1), LAMBDA d :
                IF d = c + 1 \/ CharAt(s, d) # ")"
                THEN [ok |-> FALSE, group1 |-> <<>>]
                ELSE [ok |-> TRUE,
                      group1 |-> IF \E k \in DOMAIN data_type : data_type[k] = "("
                                 THEN TypeGroup(data_type)
                                 ELSE SubSeq(s, c + 1, d - 1)]))))

\* int(text): the number, or a ValueError.
RECURSIVE DecimalValue(_, _, _)
DecimalValue(text, i, acc) ==
    IF i > Len(text) THEN acc
    ELSE DecimalValue(text, i + 1, 10 * acc + IndexOf(DigitChars, text[i]) - 1)

ParseInt(text) ==
    IF text # <<>> /\ \A i \in DOMAIN text : IsDigit(text[i])
    THEN [exc |-> "", length |-> Some(DecimalValue(text, 1, 0))]
    ELSE [exc |-> "ValueError", length |-> None]

\* re.search of the length pattern, leftmost match, and int(group(1)).
ExtractLength(s, column_name, data_type) ==
    Bind({i \in DOMAIN s : LengthMatchAt(s, i, column_name, data_type).ok},
         LAMBDA at :
        IF at = {}
        THEN [exc |-> "", length |-> None]
        ELSE Bind(LengthMatchAt(s, CHOOSE i \in at : \A j \in at : i <= j,
                                column_name, data_type),
                  LAMBDA m : ParseInt(m.group1)))

type_mapping ==
    (kw_BIGINT :> ty_bigint) @@ (kw_SMALLINT :> ty_smallint) @@
    (kw_INT :> ty_int32) @@ (kw_DECIMAL :> ty_decimal) @@
    (kw_FLOAT :> ty_float) @@ (kw_DOUBLE :> ty_float64) @@
    (kw_VARCHAR :> ty_string) @@ (kw_CHAR :> ty_string) @@
    (kw_DATETIME :> ty_datetime) @@ (kw_BOOLEAN :> ty_bool) @@
    (kw_BOOL :> ty_bool)

\* type_mapping.get(data_type.split('(')[0].upper(), data_type.lower())
MappedType(data_type) ==
    Get(type_mapping, Upper(BeforeFirst(data_type, "(")), Lower(data_type))

\* A mutation of ResetColumns: the columns stored before the call are kept.
KeepColumns(cols) == cols

\* self.columns = []
ResetColumns(cols) == <<>>

\* re.search(r'CREATE TABLE.*?\((.*?)\)', ddl, IGNORECASE|DOTALL) of
\* parse_create_table_ddl: whether the text has a CREATE TABLE ... ( ... ).
HasCreateTableBlock(ddl) ==
    \E i, j, k \in DOMAIN ddl :
        /\ MatchLiteral(ddl, i, kw_CREATE_TABLE) # 0
        /\ MatchLiteral(ddl, i, kw_CREATE_TABLE) <= j
        /\ ddl[j] = "("
        /\ j < k
        /\ ddl[k] = ")"

\* ----------------------------------------------------------------- inputs

nm_a == <<"a">>
nm_b == <<"b">>
nm_id == <<"i","d">>
nm_name == <<"n","a","m","e">>
nm_flag == <<"f","l","a","g">>
nm_t == <<"t">>
nm_interests == <<"i","n","t","e","r","e","s","t","s">>

in_int == <<"i","n","t">>
in_double == <<"d","o","u","b","l","e">>
in_date == <<"d","a","t","e">>
in_timestamp == <<"t","i","m","e","s","t","a","m","p">>
in_GEOMETRY == <<"G","E","O","M","E","T","R","Y">>
in_Decimal_10_2 == <<"D","e","c","i","m","a","l","(","1","0",",","2",")">>
in_String == <<" ","S","t","r","i","n","g"," ">>

d_2 == <<"2">>
d_3 == <<"3">>
d_10 == <<"1","0">>
d_50 == <<"5","0">>
d_100 == <<"1","0","0">>

\* Row counts offered to the calculations: negative, zero and positive.
RowCounts == -1..MaxRows

\* Lengths offered to add_column.
Lengths == {None, Some(3)}

\* A type name with its first letter in upper case.
Capitalized(t) == [i \in DOMAIN t |-> IF i = 1 THEN UpperChar(t[i]) ELSE t[i]]

\* The type names of the fixed-width table of the specification and the
\* variable-width ones, each in lower, upper and capitalised letters, and
\* names that are in neither.
ListedTypes ==
    {ty_int8, ty_smallint, ty_int16, ty_int32, in_int, ty_bigint, ty_int64,
     ty_float, ty_float32, in_double, ty_float64, ty_decimal, ty_bool,
     ty_boolean, in_date, ty_datetime, in_timestamp}

TypeInputs ==
    UNION {{t, Upper(t), Capitalized(t)} :
             t \in ListedTypes \cup {ty_varchar, ty_char, ty_string}}
    \cup {in_GEOMETRY, in_Decimal_10_2, in_String}

\* The type names offered to add_column where schemas of several columns
\* are built.
FewTypeInputs == {ty_int32, in_GEOMETRY, Capitalized(ty_char), Upper(ty_varchar)}

\* A type as written in a column definition: the keyword and its arguments.
TypeForms ==
    {[kw |-> k, args |-> <<>>] :
        k \in {kw_BIGINT, kw_SMALLINT, kw_INT, kw_FLOAT, kw_DOUBLE,
               kw_DATETIME, kw_BOOLEAN, kw_BOOL}}
    \cup {[kw |-> kw_VARCHAR, args |-> <<d_50>>],
          [kw |-> kw_VARCHAR, args |-> <<d_100>>],
          [kw |-> kw_CHAR, args |-> <<d_3>>],
          [kw |-> kw_DECIMAL, args |-> <<d_10, d_2>>]}

sp == <<" ">>

cons_none == <<>>
cons_not_null == sp \o kw_NOT \o sp \o kw_NULL
cons_primary_key == sp \o kw_PRIMARY \o sp \o kw_KEY
cons_both == cons_not_null \o cons_primary_key

\* The column definitions of the generated statements: every type form
\* without a constraint, INT and VARCHAR with each constraint.
ColumnDefs ==
    {[type |-> f, cons |-> cons_none] : f \in TypeForms}
    \cup {[type |-> f, cons |-> c] :
            f \in {g \in TypeForms : g.kw \in {kw_INT, kw_VARCHAR}},
            c \in {cons_not_null, cons_primary_key, cons_both}}

\* The definitions that follow the first one of a generated statement.
LaterDefs ==
    {[type |-> [kw |-> kw_INT, args |-> <<>>], cons |-> cons_none],
     [type |-> [kw |-> kw_VARCHAR, args |-> <<d_100>>], cons |-> cons_not_null],
     [type |-> [kw |-> kw_DECIMAL, args |-> <<d_10, d_2>>], cons |-> cons_none]}

\* The name of the i-th column of a generated statement.
ColumnNames == <<nm_id, nm_name, nm_flag, nm_a, nm_b>>

\* A well-formed statement: a table name and 1..MaxDefs column definitions,
\* the first any of ColumnDefs and the others of LaterDefs, written in
\* upper-case or in lower-case letters.
DDLInputs ==
    {[table |-> t, defs |-> ds, lower |-> l] :
        t \in {nm_t, nm_interests},
        ds \in {ds \in UNION {[1..n -> ColumnDefs] : n \in 1..MaxDefs} :
                 \A i \in DOMAIN ds : i > 1 => ds[i] \in LaterDefs},
        l \in BOOLEAN}

RECURSIVE JoinArgs(_, _)
JoinArgs(args, i) ==
    IF i > Len(args) THEN <<>>
    ELSE (IF i > 1 THEN <<",">> ELSE <<>>) \o args[i] \o JoinArgs(args, i + 1)

RenderType(f) ==
    f.kw \o (IF f.args = <<>> THEN <<>> ELSE <<"(">> \o JoinArgs(f.args, 1) \o <<")">>)

RECURSIVE RenderDefs(_, _)
RenderDefs(defs, i) ==
    IF i > Len(defs) THEN <<>>
    ELSE (IF i > 1 THEN <<",", " ">> ELSE <<>>)
         \o ColumnNames[i] \o sp \o RenderType(defs[i].type) \o defs[i].cons
         \o RenderDefs(defs, i + 1)

\* CREATE TABLE <table> (<name> <type><constraints>, ...)
Render(d) ==
    LET text == kw_CREATE_TABLE \o sp \o d.table \o sp \o <<"(">>
                \o RenderDefs(d.defs, 1) \o <<")">>
    IN  IF d.lower THEN Lower(text) ELSE text

\* 'CREATE TABLE t (id INT, name VARCHAR(100))'
sql_two_columns ==
    <<"C","R","E","A","T","E"," ","T","A","B","L","E"," ","t"," ","(","i",
      "d"," ","I","N","T",","," ","n","a","m","e"," ","V","A","R","C","H",
      "A","R","(","1","0","0",")",")">>

\* 'the float value'
sql_prose ==
    <<"t","h","e"," ","f","l","o","a","t"," ","v","a","l","u","e">>

\* 'hello world'
sql_hello ==
    <<"h","e","l","l","o"," ","w","o","r","l","d">>

\* 'a INT, p DECIMAL(1,2) p DECIMAL1,2(3)'
sql_value_error ==
    <<"a"," ","I","N","T",","," ","p"," ","D","E","C","I","M","A","L","(",
      "1",",","2",")"," ","p"," ","D","E","C","I","M","A","L","1",",","2",
      "(","3",")">>

\* 'create table t (\n a   int not   null,\n b varchar( 5 ), c varchar(5)\n)'
sql_multiline ==
    <<"c","r","e","a","t","e"," ","t","a","b","l","e"," ","t"," ","(","\n",
      " ","a"," "," "," ","i","n","t"," ","n","o","t"," "," "," ","n","u",
      "l","l",",","\n"," ","b"," ","v","a","r","c","h","a","r","("," ","5",
      " ",")",","," ","c"," ","v","a","r","c","h","a","r","(","5",")","\n",
      ")">>

\* 'a INT, c CHAR(7) b INT c char7(9)'
sql_found_length ==
    <<"a"," ","I","N","T",","," ","c"," ","C","H","A","R","(","7",")"," ",
      "b"," ","I","N","T"," ","c"," ","c","h","a","r","7","(","9",")">>

\* 'a INT a int(12)'
sql_int_length ==
    <<"a"," ","I","N","T"," ","a"," ","i","n","t","(","1","2",")">>

\* 'CREATE TABLE t ("a" INT PRIMARY KEY NOT NULL, b INTEGER)'
sql_quoted ==
    <<"C","R","E","A","T","E"," ","T","A","B","L","E"," ","t"," ","(","\"",
      "a","\""," ","I","N","T"," ","P","R","I","M","A","R","Y"," ","K","E",
      "Y"," ","N","O","T"," ","N","U","L","L",","," ","b"," ","I","N","T",
      "E","G","E","R",")">>

sql_empty == <<>>

\* The texts given to parse_create_table_sql between other operations.
FewSqlTexts == {sql_two_columns, sql_prose, sql_empty, sql_value_error}

\* Texts that are no well-formed CREATE TABLE statement.
OtherSqlTexts ==
    {sql_two_columns, sql_prose, sql_hello, sql_empty, sql_value_error,
     sql_multiline, sql_found_length, sql_int_length, sql_quoted}

SqlTexts == {Render(d) : d \in DDLInputs} \cup OtherSqlTexts

\* ------------------------------------- parse_create_table_sql, the loop

\* What the loop body computes for a match before it calls add_column:
\* the length found by the length pattern (or the ValueError of int) and
\* the mapped type.
Scan(sql) ==
    Bind(NormalizeSql(sql), LAMBDA s :
    Bind(FindAll(s), LAMBDA matches :
        [i \in DOMAIN matches |->
            [column_name |-> matches[i].column_name,
             found |-> ExtractLength(s, matches[i].column_name,
                                     matches[i].data_type),
             mapped_type |-> MappedType(matches[i].data_type)]]))

\* Scan of every text the specifications offer, as tables computed once.
ScanOfFew == [sql \in FewSqlTexts |-> Scan(sql)]

ScanOf == [sql \in SqlTexts |-> Scan(sql)]

Scanned(sql) == IF sql \in FewSqlTexts THEN ScanOfFew[sql] ELSE ScanOf[sql]

\* The loop over the matches: each adds a column, and a ValueError of
\* int() leaves the loop with the columns added so far.
RECURSIVE AddMatches(_, _, _)
AddMatches(cols, scanned, i) ==
    IF i > Len(scanned) THEN [columns |-> cols, exc |-> ""]
    ELSE IF scanned[i].found.exc # ""
    THEN [columns |-> cols, exc |-> scanned[i].found.exc]
    ELSE Bind(add_column(cols, scanned[i].column_name, scanned[i].mapped_type,
                         scanned[i].found.length),
              LAMBDA added : AddMatches(added, scanned, i + 1))

\* parse_create_table_sql as a function of the list held before the call.
parse_create_table_sql(cols, sql) ==
    Bind(Scanned(sql), LAMBDA scanned :
        AddMatches(ResetColumns(cols), scanned, 1))

\* ---------------------------------------------------------------- actions

\* DatasetMemoryCalculator(): no columns; op names the last call, arg its
\* arguments, result what it returned or raised, warnings the number of
\* warnings it printed, n_before the number of columns held when it began.
Init ==
    /\ n_before = 0
    /\ columns = <<>>
    /\ op = "__init__"
    /\ arg = <<>>
    /\ result = ReturnedNone
    /\ warnings = 0

AddColumn(name, data_type, length) ==
    /\ columns' = add_column(columns, name, data_type, length)
    /\ op' = "add_column"
    /\ arg' = [name |-> name, data_type |-> data_type, length |-> length]
    /\ result' = ReturnedNone
    /\ warnings' = 0
    /\ n_before' = Len(columns)

\* calculate_column_size(self.columns[i], row_count)
CalculateColumnSize(i, row_count) ==
    \E r \in {calculate_column_size(columns[i], row_count)} :
        /\ op' = "calculate_column_size"
        /\ arg' = [column |-> columns[i], row_count |-> row_count]
        /\ result' = IF r.exc # "" THEN Raised(r.exc)
                                   ELSE [kind |-> "size", size |-> r.size]
        /\ warnings' = r.warned
        /\ n_before' = Len(columns)
        /\ UNCHANGED columns

CalculateTotalMemory(row_count) ==
    \E r \in {calculate_total_memory(columns, row_count)} :
        /\ op' = "calculate_total_memory"
        /\ arg' = [row_count |-> row_count]
        /\ result' = r.result
        /\ warnings' = r.warned
        /\ n_before' = Len(columns)
        /\ UNCHANGED columns

ParseCreateTableSql(sql) ==
    \E r \in {parse_create_table_sql(columns, sql)} :
        /\ columns' = r.columns
        /\ op' = "parse_create_table_sql"
        /\ arg' = [sql |-> sql]
        /\ result' = IF r.exc # "" THEN Raised(r.exc) ELSE ReturnedNone
        /\ warnings' = 0
        /\ n_before' = Len(columns)

\* Schemas of up to MaxCols columns built by add_column and replaced by
\* parse_create_table_sql, and both calculations on them.
Next ==
    \/ \E name \in {nm_a, nm_b}, data_type \in FewTypeInputs, length \in Lengths :
           Len(columns) < MaxCols /\ AddColumn(name, data_type, length)
    \/ \E i \in DOMAIN columns, row_count \in RowCounts :
           CalculateColumnSize(i, row_count)
    \/ \E row_count \in RowCounts : CalculateTotalMemory(row_count)
    \/ \E sql \in FewSqlTexts : ParseCreateTableSql(sql)

Spec == Init /\ [][Next]_vars

\* One column of every type name, and both calculations on it.
NextTypes ==
    \/ \E data_type \in TypeInputs, length \in Lengths :
           columns = <<>> /\ AddColumn(nm_a, data_type, length)
    \/ \E i \in DOMAIN columns, row_count \in RowCounts :
           CalculateColumnSize(i, row_count)
    \/ \E row_count \in RowCounts : CalculateTotalMemory(row_count)

SpecTypes == Init /\ [][NextTypes]_vars

\* Every text parsed by a calculator without columns, and the total
\* calculated on what was parsed.
NextParse ==
    \/ \E sql \in SqlTexts : columns = <<>> /\ ParseCreateTableSql(sql)
    \/ \E row_count \in RowCounts : CalculateTotalMemory(row_count)

SpecParse == Init /\ [][NextParse]_vars

\* ------------------------------------------------------------- properties

\* A column of a type that is neither string-like nor a key of
\* DATA_TYPE_SIZES: the one calculate_column_size warns about.
IsUnknown(column) ==
    Lower(column.type) \notin StringLikeTypes \cup DOMAIN DATA_TYPE_SIZES

\* The sum over the columns of calculate_column_size with row count 1.
RECURSIVE SumPerValue(_, _)
SumPerValue(cols, i) ==
    IF i > Len(cols) THEN 0
    ELSE calculate_column_size(cols[i], 1).size + SumPerValue(cols, i + 1)

AllZero(estimate) ==
    /\ estimate.total_bytes = 0
    /\ estimate.total_kb.num = 0
    /\ estimate.total_mb.num = 0
    /\ estimate.total_gb.num = 0

\* C1: for every schema and every row count N >= 1, calculate_total_memory(N)
\* returns total_bytes equal to N times the sum of the columns' per-value
\* costs, and four zeros for the schema without columns.
C1_TotalIsRowsTimesPerValueCosts ==
    (op = "calculate_total_memory" /\ arg.row_count >= 1) =>
        /\ result.kind = "estimate"
        /\ \A i \in DOMAIN columns : calculate_column_size(columns[i], 1).exc = ""
        /\ result.total_bytes = arg.row_count * SumPerValue(columns, 1)
        /\ columns = <<>> => AllZero(result)

\* The number a definition of a generated statement declares as its length.
DeclaredLength(def) == DecimalValue(def.type.args[1], 1, 0)

\* C2: every column declared as VARCHAR(n) or CHAR(n) is stored with length
\* n and costs n bytes per row.
C2_DeclaredLengthIsStored ==
    op = "parse_create_table_sql" =>
        \A d \in DDLInputs : arg.sql = Render(d) =>
            \A i \in DOMAIN d.defs :
                d.defs[i].type.kw \in {kw_VARCHAR, kw_CHAR} =>
                    \E k \in DOMAIN columns :
                        /\ columns[k].name = ColumnNames[i]
                        /\ columns[k].length = Some(DeclaredLength(d.defs[i]))
                        /\ calculate_column_size(columns[k], 1) =
                               [exc |-> "", size |-> DeclaredLength(d.defs[i]),
                                warned |-> 0]

\* C3: a well-formed CREATE TABLE statement yields exactly one descriptor
\* per column definition, in declaration order, with the declared name and
\* the canonical type tag, a DECIMAL(p,s) column costing 8 bytes; no other
\* descriptor is produced and no error is raised.
C3_OneDescriptorPerDefinition ==
    op = "parse_create_table_sql" =>
        \A d \in DDLInputs : arg.sql = Render(d) =>
            /\ result = ReturnedNone
            /\ Len(columns) = Len(d.defs)
            /\ \A i \in DOMAIN d.defs :
                   /\ columns[i].name = ColumnNames[i]
                   /\ columns[i].type = type_mapping[d.defs[i].type.kw]
                   /\ d.defs[i].type.kw = kw_DECIMAL =>
                          calculate_column_size(columns[i], 1) =
                              [exc |-> "", size |-> 8, warned |-> 0]

\* C4: after parse_create_table_sql(sql), whatever was held before, the
\* column list is the one the same call leaves in a calculator constructed
\* without columns.
C4_ReimportReplacesSchema ==
    op = "parse_create_table_sql" =>
        columns = parse_create_table_sql(<<>>, arg.sql).columns

\* C4, witness: a calculator that held columns was given a statement, and
\* holds that statement's two columns.
C4_Witness ==
    /\ op = "parse_create_table_sql"
    /\ n_before > 0
    /\ arg.sql = sql_two_columns
    /\ Len(columns) = 2
    /\ columns[1].name = nm_id
    /\ columns[2].name = nm_name

\* C5: parsing a text without a CREATE TABLE ... ( ... ) structure leaves
\* the calculator without columns and raises nothing.
C5_NoCreateTableYieldsNoColumns ==
    (op = "parse_create_table_sql" /\ ~HasCreateTableBlock(arg.sql)) =>
        /\ columns = <<>>
        /\ result = ReturnedNone

Recognised(cols) == SelectSeq(cols, LAMBDA c : ~IsUnknown(c))

ListedBytes(t) ==
    CASE t \in {ty_int8, ty_bool, ty_boolean} -> 1
      [] t \in {ty_smallint, ty_int16} -> 2
      [] t = in_date -> 3
      [] t \in {ty_int32, in_int, ty_float, ty_float32} -> 4
      [] t \in {ty_bigint, ty_int64, in_double, ty_float64, ty_decimal,
                ty_datetime, in_timestamp} -> 8

\* C7: a column added under a type name of the fixed-width table, in
\* lower-case, upper-case or capitalised letters, costs the listed number
\* of bytes per row in calculate_column_size and calculate_total_memory.
C7_ListedTypesCostListedBytes ==
    \A t \in ListedTypes : \A f \in {t, Upper(t), Capitalized(t)} :
        \A l \in Lengths :
            columns = add_column(<<>>, nm_a, f, l) =>
                /\ op = "calculate_column_size" =>
                       result = [kind |-> "size",
                                 size |-> ListedBytes(t) * arg.row_count]
                /\ op = "calculate_total_memory" =>
                       result = Estimate(ListedBytes(t) * arg.row_count)

\* C8: for a column added as varchar, char or string, calculate_total_memory(N)
\* with N >= 1 returns a total: N times the length when one was given, N
\* times a positive fallback when none was.
C8_VariableWidthAlwaysCosted ==
    (op = "calculate_total_memory" /\ arg.row_count >= 1) =>
        \A t \in {ty_varchar, ty_char, ty_string} :
            \A f \in {t, Upper(t), Capitalized(t)} : \A l \in Lengths :
                columns = add_column(<<>>, nm_a, f, l) =>
                    /\ result.kind = "estimate"
                    /\ l # None => result.total_bytes = arg.row_count * l[1]
                    /\ l = None =>
                           \E fallback \in 1..255 :
                               result.total_bytes = arg.row_count * fallback

\* C9: calculate_total_memory returns no estimate for a row count <= 0, and
\* total_bytes of every estimate it returns is >= 0.
C9_NonPositiveRowCountRejected ==
    op = "calculate_total_memory" =>
        /\ arg.row_count <= 0 => result.kind # "estimate"
        /\ result.kind = "estimate" => result.total_bytes >= 0

\* C10: add_column leaves the list it found with one descriptor appended,
\* both calculations leave the list as it is, and parse_create_table_sql
\* leaves the list it would leave in a calculator without columns; no other
\* step makes the list shorter or changes a stored descriptor.
C10_AppendedOrReplacedWholesale ==
    [][/\ op' = "add_column" =>
              /\ Len(columns') = Len(columns) + 1
              /\ SubSeq(columns', 1, Len(columns)) = columns
              /\ columns'[Len(columns')].name = arg'.name
       /\ op' \in {"calculate_column_size", "calculate_total_memory"} =>
              columns' = columns
       /\ op' = "parse_create_table_sql" =>
              columns' = parse_create_table_sql(<<>>, arg'.sql).columns
       /\ (\E i \in DOMAIN columns :
               i > Len(columns') \/ columns'[i] # columns[i]) =>
              op' = "parse_create_table_sql"]_vars

\* C10, witness: a column was added under the name of the column already
\* stored, and both are held.
C10_Witness ==
    /\ op = "add_column"
    /\ Len(columns) = 2
    /\ columns[1].name = columns[2].name
    /\ columns[1].type # columns[2].type

====
